---- MODULE Spec2Model ----
(***************************************************************************)
(* A model of lcz_lwm2m_ble_sensor.c: the BLE advertisement pipeline that  *)
(* resolves a radio address to a gateway-object index, filters duplicate   *)
(* sensor events, converts them and forwards them to the LwM2M sinks.      *)
(*                                                                         *)
(* The gateway object directory and the measurement sinks are other       *)
(* libraries: they are modelled as the environment, from the way the      *)
(* source calls them.                                                      *)
(***************************************************************************)
EXTENDS Integers, Sequences, FiniteSets, TLC

(***************************************************************************)
(* Program constants.                                                      *)
(***************************************************************************)
\* #define MAX_INSTANCES CONFIG_LCZ_LWM2M_GATEWAY_MAX_INSTANCES
MAX_INSTANCES == 2

\* errno values used by the source and by the directory
EPERM == 1
ENOENT == 2
EIO == 5
ENOMEM == 12

\* lcz_sensor_adv_format.h product identifiers
BT510_PRODUCT_ID == 0
BT6XX_PRODUCT_ID == 1
OTHER_PRODUCT_ID == 2
INVALID_PRODUCT_ID == 65535

\* lcz_sensor_event.h record types (a member of each group the source names)
SENSOR_EVENT_RESERVED == 0
SENSOR_EVENT_TEMPERATURE == 1
SENSOR_EVENT_MAGNET == 2
SENSOR_EVENT_BATTERY_GOOD == 12
SENSOR_EVENT_BATTERY_BAD == 16
SENSOR_EVENT_TEMPERATURE_1 == 18
SENSOR_EVENT_TEMPERATURE_2 == 19
SENSOR_EVENT_TEMPERATURE_3 == 20
SENSOR_EVENT_TEMPERATURE_4 == 21
SENSOR_EVENT_CURRENT_1 == 22
SENSOR_EVENT_CURRENT_2 == 23
SENSOR_EVENT_CURRENT_3 == 24
SENSOR_EVENT_CURRENT_4 == 25
SENSOR_EVENT_ULTRASONIC_1 == 26
SENSOR_EVENT_PRESSURE_1 == 27
SENSOR_EVENT_PRESSURE_2 == 28

(***************************************************************************)
(* Bounds of the model.                                                    *)
(***************************************************************************)
\* sequence ids carried by events: 0 .. MaxId
MaxId == 1
\* radio addresses of devices that are not blocked: 1 .. NumAddr
NumAddr == 3

\* address 0 is a device the directory blocks (create answers -EPERM)
BlockedAddr == 0
NoAddr == -1
Addrs == 0 .. NumAddr
Ids == 0 .. MaxId
Slots == 0 .. (MAX_INSTANCES - 1)

Categories == {"temperature", "battery", "current", "pressure", "fill_level"}

NoName == "none"

VARIABLES
    table,       \* lbs.table[MAX_INSTANCES]
    table_full,  \* lbs.table_full
    cfg,         \* the measurement categories compiled in (CONFIG_LCZ_LWM2M_*)
    dir,         \* directory: index -> address of the live record, or NoAddr
    epname,      \* directory: index -> endpoint name of the record, or NoName
    frame,       \* the operation that was last processed, and its outcome
    calls,       \* the external calls the last operation made, in order
    writer,      \* index -> address whose event last changed the slot's
                 \* markers during the record's present lifetime, or NoAddr
    first_req,   \* index -> the name of the first set_endpoint_name request
                 \* issued during the record's present lifetime, or NoName
    pend,        \* the frame the Bluetooth RX thread is inside ad_handler
                 \* with, and the index (idx) its get_index returned
    sent         \* on: whether forwarded events are recorded; fwd: index ->
                 \* the (id, type) forwarded to a sink during the record's
                 \* present lifetime

vars ==
    <<table, table_full, cfg, dir, epname, frame, calls, writer, first_req,
      pend, sent>>

(***************************************************************************)
(* External calls, as logged.                                              *)
(***************************************************************************)
NoVal == [view |-> "none", num |-> 0, den |-> 1]
NoPct == [curve |-> "none", num |-> 0, den |-> 1]

Call(fn, addr, idx, off, val, pct, rc) ==
    [fn |-> fn, addr |-> addr, idx |-> idx, off |-> off, val |-> val,
     pct |-> pct, rc |-> rc]

Log(s, c) == [s EXCEPT !.calls = Append(@, c)]

SinkFns == {"temperature_set", "battery_set", "current_set", "pressure_set",
            "fill_level_set"}

CallsOf(cs, fns) == SelectSeq(cs, LAMBDA c : c.fn \in fns)

(***************************************************************************)
(* The directory, as the source uses it.                                   *)
(***************************************************************************)
\* lcz_lwm2m_gw_obj_lookup_ble: the index of the address's record, or < 0
gw_obj_lookup_ble(d, addr) ==
    IF \E i \in Slots : d[i] = addr
    THEN CHOOSE i \in Slots : d[i] = addr
    ELSE -ENOENT

FreeSlots(d) == {i \in Slots : d[i] = NoAddr}

\* lcz_lwm2m_gw_obj_create: a free index (slot, chosen by the directory),
\* -EPERM for a blocked device, -ENOMEM when no index is free
gw_obj_create(d, addr, slot) ==
    IF addr = BlockedAddr THEN -EPERM
    ELSE IF FreeSlots(d) = {} THEN -ENOMEM
    ELSE slot

\* an index beyond the table, as a directory at fault would answer
RogueIndex == MAX_INSTANCES

\* what lcz_lwm2m_gw_obj_lookup_ble answers get_index: the directory's
\* answer, or RogueIndex from a directory at fault (env.rogue)
lookup_answer(s, addr, env) ==
    IF env.rogue = "lookup" THEN RogueIndex
    ELSE gw_obj_lookup_ble(s.dir, addr)

\* what lcz_lwm2m_gw_obj_create answers get_index (the index of the record
\* when the address has one, which get_index asks for only after a lookup
\* answered at fault)
create_answer(s, addr, env) ==
    IF env.rogue = "create" THEN RogueIndex
    ELSE IF gw_obj_lookup_ble(s.dir, addr) >= 0
    THEN gw_obj_lookup_ble(s.dir, addr)
    ELSE gw_obj_create(s.dir, addr, env.slot)

\* lcz_lwm2m_gw_obj_inst_created: true once the record has a name
gw_obj_inst_created(s, idx) == s.epname[idx] # NoName

(***************************************************************************)
(* Local functions of the source.  A function that goes on with the result *)
(* of a call is written as the call's stage followed by the stage that     *)
(* receives the result.                                                    *)
(***************************************************************************)
valid_index(idx) == idx >= 0 /\ idx < MAX_INSTANCES

\* get_index, the end: an index beyond the table is answered -EPERM
get_index_return(s, idx) ==
    [s |-> s, idx |-> IF idx >= MAX_INSTANCES THEN -EPERM ELSE idx]

\* get_index, the LOG_DBG after the create request: in a build with debug
\* logging its arguments lcz_lwm2m_gw_obj_get_instance(idx) and get_name(idx)
\* (lcz_lwm2m_gw_obj_get_endpoint_name) are evaluated with the answer as it
\* came, unless the answer is -EPERM and verbose create logging is off
get_index_logged(s, idx) ==
    IF "log_dbg" \in cfg /\ (idx # -EPERM \/ "create_log_verbose" \in cfg)
    THEN Log(Log(s, Call("get_instance", NoAddr, idx, 0, NoVal, NoPct, 0)),
             Call("get_endpoint_name", NoAddr, idx, 0, NoVal, NoPct, 0))
    ELSE s

\* get_index that latches table_full on every failed create
get_index_created_anyfail(s, addr, idx) ==
    get_index_return(
        [get_index_logged(Log(s, Call("create", addr, idx, 0, NoVal, NoPct,
                                      idx)), idx) EXCEPT
            !.dir = IF valid_index(idx) THEN [@ EXCEPT ![idx] = addr] ELSE @,
            !.table_full = IF idx < 0 THEN TRUE ELSE @],
        idx)

\* get_index, the create request answered idx: the directory has recorded
\* the address under a valid idx; -ENOMEM latches table_full
get_index_created(s, addr, idx) ==
    get_index_return(
        [get_index_logged(Log(s, Call("create", addr, idx, 0, NoVal, NoPct,
                                      idx)), idx) EXCEPT
            !.dir = IF valid_index(idx) THEN [@ EXCEPT ![idx] = addr] ELSE @,
            !.table_full = IF idx = -ENOMEM THEN TRUE ELSE @],
        idx)

\* whether get_index asks the directory to create a record: as written
\* without the table_full latch
MustCreate_nolatch(s, idx, add) == ~valid_index(idx) /\ add

\* as written, whatever `add` says
MustCreate_always(s, idx, add) == ~valid_index(idx) /\ ~s.table_full

\* whether get_index asks the directory to create a record
MustCreate(s, idx, add) == ~valid_index(idx) /\ add /\ ~s.table_full

\* get_index, the lookup answered idx
get_index_looked_up(s, addr, add, env, idx) ==
    IF MustCreate(s, idx, add)
    THEN get_index_created(
             Log(s, Call("lookup", addr, idx, 0, NoVal, NoPct, idx)),
             addr, create_answer(s, addr, env))
    ELSE get_index_return(
             Log(s, Call("lookup", addr, idx, 0, NoVal, NoPct, idx)), idx)

get_index(s, addr, add, env) ==
    get_index_looked_up(s, addr, add, env, lookup_answer(s, addr, env))

\* ad_discard that lets every record type through
ad_discard_none(c, p) == FALSE

\* ad_discard that lets every known record type through
ad_discard_known(c, p) ==
    p.recordType \notin
        {SENSOR_EVENT_TEMPERATURE, SENSOR_EVENT_BATTERY_GOOD,
         SENSOR_EVENT_BATTERY_BAD} \cup
        (SENSOR_EVENT_TEMPERATURE_1 .. SENSOR_EVENT_PRESSURE_2)

\* ad_discard: TRUE when the record type is unknown or its category is off
ad_discard(c, p) ==
    CASE p.recordType = SENSOR_EVENT_TEMPERATURE -> ~("temperature" \in c)
      [] p.recordType \in {SENSOR_EVENT_BATTERY_GOOD, SENSOR_EVENT_BATTERY_BAD}
            -> ~("battery" \in c)
      [] p.recordType \in SENSOR_EVENT_TEMPERATURE_1 .. SENSOR_EVENT_TEMPERATURE_4
            -> ~("temperature" \in c)
      [] p.recordType \in SENSOR_EVENT_CURRENT_1 .. SENSOR_EVENT_CURRENT_4
            -> ~("current" \in c)
      [] p.recordType \in {SENSOR_EVENT_PRESSURE_1, SENSOR_EVENT_PRESSURE_2}
            -> ~("pressure" \in c)
      [] p.recordType = SENSOR_EVENT_ULTRASONIC_1 -> ~("fill_level" \in c)
      [] OTHER -> TRUE

\* the views of the event's 4-byte data union (little endian); raw is the
\* union's 32-bit word, here with its top bit clear (0 .. 2^31 - 1), so that
\* (uint32_t)data.s32 is the word itself
U16(raw) == raw % 65536
S16(raw) == IF U16(raw) >= 32768 THEN U16(raw) - 65536 ELSE U16(raw)
U32(raw) == raw

\* the duplicate test without the exemption of sequence id 0
IsDuplicate_zero(slot, p) ==
    /\ p.id = slot.last_event_id
    /\ p.recordType = slot.last_record_type

\* no duplicate test at all
IsDuplicate_never(slot, p) == FALSE

\* the duplicate test of ad_filter
IsDuplicate(slot, p) ==
    /\ p.id # 0
    /\ p.id = slot.last_event_id
    /\ p.recordType = slot.last_record_type

\* the battery conversion reading the whole 32-bit word for BT510
BatteryData_wide(product_id, p) ==
    CASE product_id = BT510_PRODUCT_ID ->
            [val |-> [view |-> "u16", num |-> U32(p.raw), den |-> 1000],
             pct |-> [curve |-> "bt510", num |-> U32(p.raw), den |-> 1000]]
      [] product_id = BT6XX_PRODUCT_ID ->
            [val |-> [view |-> "u32", num |-> U32(p.raw), den |-> 1000],
             pct |-> [curve |-> "bt610", num |-> U32(p.raw), den |-> 1000]]
      [] OTHER ->
            [val |-> [view |-> "zero", num |-> 0, den |-> 1],
             pct |-> [curve |-> "zero", num |-> 0, den |-> 1]]

\* the battery conversion of ad_process: the voltage num/den, and the
\* percentage as the named curve applied to that voltage ("zero": the
\* literal 0 of the default branch)
BatteryData(product_id, p) ==
    CASE product_id = BT510_PRODUCT_ID ->
            [val |-> [view |-> "u16", num |-> U16(p.raw), den |-> 1000],
             pct |-> [curve |-> "bt510", num |-> U16(p.raw), den |-> 1000]]
      [] product_id = BT6XX_PRODUCT_ID ->
            [val |-> [view |-> "u32", num |-> U32(p.raw), den |-> 1000],
             pct |-> [curve |-> "bt610", num |-> U32(p.raw), den |-> 1000]]
      [] OTHER ->
            [val |-> [view |-> "zero", num |-> 0, den |-> 1],
             pct |-> [curve |-> "zero", num |-> 0, den |-> 1]]

F32(p, den) == [view |-> "f32", num |-> U32(p.raw), den |-> den]

\* ad_process: at most one sink call, by record type
ad_process(s, idx, p, env) ==
    LET t == p.recordType IN
    CASE t = SENSOR_EVENT_TEMPERATURE ->
            IF "temperature" \in cfg
            THEN Log(s, Call("temperature_set", NoAddr, idx, 0,
                             [view |-> "s16", num |-> S16(p.raw), den |-> 100],
                             NoPct, env.sinkrc))
            ELSE s
      [] t \in SENSOR_EVENT_TEMPERATURE_1 .. SENSOR_EVENT_TEMPERATURE_4 ->
            IF "temperature" \in cfg
            THEN Log(s, Call("temperature_set", NoAddr, idx,
                             t - SENSOR_EVENT_TEMPERATURE_1, F32(p, 1), NoPct,
                             env.sinkrc))
            ELSE s
      [] t \in {SENSOR_EVENT_BATTERY_GOOD, SENSOR_EVENT_BATTERY_BAD} ->
            IF "battery" \in cfg
            THEN Log(s, Call("battery_set", NoAddr, idx, 0,
                             BatteryData(s.table[idx].product_id, p).val,
                             BatteryData(s.table[idx].product_id, p).pct,
                             env.sinkrc))
            ELSE s
      [] t \in SENSOR_EVENT_CURRENT_1 .. SENSOR_EVENT_CURRENT_4 ->
            IF "current" \in cfg
            THEN Log(s, Call("current_set", NoAddr, idx,
                             t - SENSOR_EVENT_CURRENT_1, F32(p, 1), NoPct,
                             env.sinkrc))
            ELSE s
      [] t \in {SENSOR_EVENT_PRESSURE_1, SENSOR_EVENT_PRESSURE_2} ->
            IF "pressure" \in cfg
            THEN Log(s, Call("pressure_set", NoAddr, idx,
                             t - SENSOR_EVENT_PRESSURE_1, F32(p, 1), NoPct,
                             env.sinkrc))
            ELSE s
      [] t = SENSOR_EVENT_ULTRASONIC_1 ->
            IF "fill_level" \in cfg
            THEN Log(s, Call("fill_level_set", NoAddr, idx, 0, F32(p, 10),
                             NoPct, env.sinkrc))
            ELSE s
      [] OTHER -> Log(s, Call("unhandled", NoAddr, idx, 0, NoVal, NoPct, 0))

\* what ad_filter leaves: the state, the index it returns, whether the event
\* was accepted, whether it was dropped as a duplicate
Filtered(s, idx, accepted, dup) ==
    [s |-> s, idx |-> idx, accepted |-> accepted, dup |-> dup]

\* ad_filter storing the markers in slot 0 whatever the index
store_markers_slot0(s, idx, p) ==
    [Log(s, Call("markers", NoAddr, idx, 0, NoVal, NoPct, 0)) EXCEPT
        !.table[0].last_event_id = p.id,
        !.table[0].last_record_type = p.recordType]

\* ad_filter: lbs.table[idx].last_event_id and last_record_type (the store
\* is entered in the log of the frame, to keep its place among the calls)
store_markers(s, idx, p) ==
    [Log(s, Call("markers", NoAddr, idx, 0, NoVal, NoPct, 0)) EXCEPT
        !.table[idx].last_event_id = p.id,
        !.table[idx].last_record_type = p.recordType]

\* ad_filter: lcz_lwm2m_gw_obj_set_lifetime(idx, LIFETIME)
set_lifetime(s, idx, env) ==
    Log(s, Call("set_lifetime", NoAddr, idx, 0, NoVal, NoPct, env.liferc))

\* ad_filter that keeps the old markers when the sink call failed
ad_filter_indexed_rollback(g, p, env) ==
    IF ~valid_index(g.idx) THEN Filtered(g.s, g.idx, FALSE, FALSE)
    ELSE IF IsDuplicate(g.s.table[g.idx], p)
    THEN Filtered(g.s, g.idx, FALSE, TRUE)
    ELSE IF env.sinkrc # 0
    THEN Filtered(
             set_lifetime(ad_process(g.s, g.idx, p, env), g.idx, env),
             g.idx, TRUE, FALSE)
    ELSE Filtered(
             set_lifetime(
                 ad_process(store_markers(g.s, g.idx, p), g.idx, p, env),
                 g.idx, env),
             g.idx, TRUE, FALSE)

\* ad_filter that extends the lifetime for a duplicate too
ad_filter_indexed_dup_lifetime(g, p, env) ==
    IF ~valid_index(g.idx) THEN Filtered(g.s, g.idx, FALSE, FALSE)
    ELSE IF IsDuplicate(g.s.table[g.idx], p)
    THEN Filtered(set_lifetime(g.s, g.idx, env), g.idx, FALSE, TRUE)
    ELSE Filtered(
             set_lifetime(
                 ad_process(store_markers(g.s, g.idx, p), g.idx, p, env),
                 g.idx, env),
             g.idx, TRUE, FALSE)

\* ad_filter, from the index get_index returned (g)
ad_filter_indexed(g, p, env) ==
    IF ~valid_index(g.idx) THEN Filtered(g.s, g.idx, FALSE, FALSE)
    ELSE IF IsDuplicate(g.s.table[g.idx], p)
    THEN Filtered(g.s, g.idx, FALSE, TRUE)
    ELSE Filtered(
             set_lifetime(
                 ad_process(store_markers(g.s, g.idx, p), g.idx, p, env),
                 g.idx, env),
             g.idx, TRUE, FALSE)

\* ad_filter: gate, resolve, duplicate test, markers, dispatch, lifetime
ad_filter(s, addr, p, env) ==
    IF ad_discard(cfg, p) THEN Filtered(s, -EPERM, FALSE, FALSE)
    ELSE ad_filter_indexed(get_index(s, addr, TRUE, env), p, env)

\* rsp_handler, from the index get_index returned (g)
rsp_handler_store(g, rsp) ==
    [s |-> IF g.idx >= 0
           THEN [g.s EXCEPT !.table[g.idx].product_id = rsp.productId]
           ELSE g.s,
     idx |-> g.idx]

\* rsp_handler resolving with creation allowed
rsp_handler_add(s, addr, rsp, env) ==
    rsp_handler_store(get_index(s, addr, TRUE, env), rsp)

\* rsp_handler: resolve without creation, store the product id
rsp_handler(s, addr, rsp, env) ==
    rsp_handler_store(get_index(s, addr, FALSE, env), rsp)

\* name_handler, the request: lcz_lwm2m_gw_obj_set_endpoint_name
set_endpoint_name(s, idx, name, env) ==
    IF env.namerc = 0
    THEN [Log(s, Call("set_endpoint_name", NoAddr, idx, 0,
                      [view |-> name, num |-> 0, den |-> 1], NoPct, 0))
            EXCEPT !.epname[idx] = name]
    ELSE Log(s, Call("set_endpoint_name", NoAddr, idx, 0,
                     [view |-> name, num |-> 0, den |-> 1], NoPct, env.namerc))

\* name_handler without the inst_created test
name_handler_always(s, idx, name, env) ==
    IF ~valid_index(idx) THEN s
    ELSE IF name = NoName THEN s
    ELSE set_endpoint_name(s, idx, name, env)

\* name_handler: set the endpoint name unless the record is already named
name_handler(s, idx, name, env) ==
    IF ~valid_index(idx) THEN s
    ELSE IF name = NoName THEN s
    ELSE IF gw_obj_inst_created(s, idx)
    THEN Log(s, Call("inst_created", NoAddr, idx, 0, NoVal, NoPct, 1))
    ELSE set_endpoint_name(
             Log(s, Call("inst_created", NoAddr, idx, 0, NoVal, NoPct, 0)),
             idx, name, env)

\* gw_obj_removed that only clears the flag
gw_obj_removed_flagonly(s, idx) ==
    IF valid_index(idx) THEN [s EXCEPT !.table_full = FALSE] ELSE s

\* gw_obj_removed that only resets the product id
gw_obj_removed_pidonly(s, idx) ==
    IF valid_index(idx)
    THEN [s EXCEPT !.table[idx].product_id = INVALID_PRODUCT_ID] ELSE s

\* gw_obj_removed that also resets the slot's duplicate markers
gw_obj_removed_reset(s, idx) ==
    IF valid_index(idx)
    THEN [s EXCEPT !.table_full = FALSE,
                   !.table[idx] = [last_record_type |-> 0,
                                   last_event_id |-> 0,
                                   product_id |-> INVALID_PRODUCT_ID]]
    ELSE s

\* gw_obj_removed: clear the flag, reset the slot's product id
gw_obj_removed(s, idx) ==
    IF valid_index(idx)
    THEN [s EXCEPT !.table_full = FALSE,
                   !.table[idx].product_id = INVALID_PRODUCT_ID]
    ELSE s

(***************************************************************************)
(* ad_handler: the scan callback.  A frame matches at most one of the      *)
(* three shapes; `kind` is the shape the classifier matched.               *)
(***************************************************************************)
NoEvent == [id |-> 0, recordType |-> SENSOR_EVENT_RESERVED, raw |-> 0]
NoRsp == [productId |-> INVALID_PRODUCT_ID]

\* ad_handler: name_handler(idx, ad) with the index rsp_handler returned (q),
\* after ad_filter left r
ad_handler_name(r, q, f, env) ==
    [s |-> name_handler(q.s, q.idx, f.name, env), idx |-> r.idx,
     accepted |-> r.accepted, dup |-> r.dup, ridx |-> q.idx]

\* ad_handler: idx = rsp_handler(addr, rsp), after ad_filter left r
ad_handler_rsp(r, f, env) ==
    ad_handler_name(r, rsp_handler(r.s, f.addr, f.rsp, env), f, env)

\* ad_handler: a 1M frame ends with ad_filter
ad_handler_1m(r) ==
    [s |-> r.s, idx |-> r.idx, accepted |-> r.accepted, dup |-> r.dup,
     ridx |-> -EPERM]

\* ad_handler correlating the scan response of a coded frame before its
\* event is filtered
ad_handler_rspfirst_end(r, ridx, f, env) ==
    [s |-> name_handler(r.s, ridx, f.name, env), idx |-> r.idx,
     accepted |-> r.accepted, dup |-> r.dup, ridx |-> ridx]

ad_handler_rspfirst_mid(q, f, env) ==
    ad_handler_rspfirst_end(ad_filter(q.s, f.addr, f.ev, env), q.idx, f, env)

ad_handler_rspfirst(s, f, env) ==
    CASE f.kind = "1m" -> ad_handler_1m(ad_filter(s, f.addr, f.ev, env))
      [] f.kind = "coded" ->
            ad_handler_rspfirst_mid(rsp_handler(s, f.addr, f.rsp, env), f,
                                    env)
      [] f.kind = "rsp" ->
            ad_handler_rsp(Filtered(s, -EPERM, FALSE, FALSE), f, env)
      [] OTHER -> ad_handler_1m(Filtered(s, -EPERM, FALSE, FALSE))

ad_handler(s, f, env) ==
    CASE f.kind = "1m" -> ad_handler_1m(ad_filter(s, f.addr, f.ev, env))
      [] f.kind = "coded" ->
            ad_handler_rsp(ad_filter(s, f.addr, f.ev, env), f, env)
      [] f.kind = "rsp" ->
            ad_handler_rsp(Filtered(s, -EPERM, FALSE, FALSE), f, env)
      [] OTHER -> ad_handler_1m(Filtered(s, -EPERM, FALSE, FALSE))

(***************************************************************************)
(* The state machine: one action per frame shape, one for a removal.       *)
(***************************************************************************)
\* the program state handed to a handler, with an empty call log
Pack ==
    [table |-> table, table_full |-> table_full, dir |-> dir,
     epname |-> epname, calls |-> <<>>]

Commit(s) ==
    /\ table' = s.table
    /\ table_full' = s.table_full
    /\ dir' = s.dir
    /\ epname' = s.epname
    /\ calls' = s.calls

\* the index the directory hands out on a create for address a: any free
\* one (a choice only when a create can succeed)
SlotChoices(d, a) ==
    IF FreeSlots(d) = {} \/ valid_index(gw_obj_lookup_ble(d, a)) THEN {0}
    ELSE FreeSlots(d)

\* the frame carries the (id, type) of the event accepted from the same
\* address by the operation just before it
Repeats(f) ==
    /\ frame.kind \in {"1m", "coded"}
    /\ frame.accepted
    /\ frame.addr = f.addr
    /\ frame.id = f.ev.id
    /\ frame.recordType = f.ev.recordType

Markers(slot) == <<slot.last_event_id, slot.last_record_type>>

\* the index a frame's handlers worked on: ad_filter's, else rsp_handler's
FrameIndex(r) == IF valid_index(r.idx) THEN r.idx ELSE r.ridx

\* the set_endpoint_name requests for index i among the calls cs
NameReqs(cs, i) ==
    SelectSeq(cs, LAMBDA c : c.fn = "set_endpoint_name" /\ c.idx = i)

\* the state an operation leaves, and the record of the operation
Deliver(r, f) ==
    /\ Commit(r.s)
    /\ frame' = [kind |-> f.kind, addr |-> f.addr, id |-> f.ev.id,
                 recordType |-> f.ev.recordType, raw |-> f.ev.raw,
                 productId |-> f.rsp.productId, name |-> f.name,
                 idx |-> r.idx, accepted |-> r.accepted, dup |-> r.dup,
                 ridx |-> r.ridx, repeat |-> Repeats(f), was_full |-> FALSE,
                 pid_before |-> IF valid_index(FrameIndex(r))
                                THEN table[FrameIndex(r)].product_id
                                ELSE INVALID_PRODUCT_ID]
    /\ writer' = [i \in Slots |->
                    IF Markers(r.s.table[i]) # Markers(table[i])
                    THEN f.addr ELSE writer[i]]
    /\ first_req' = [i \in Slots |->
                       IF first_req[i] = NoName /\ NameReqs(r.s.calls, i) # <<>>
                       THEN NameReqs(r.s.calls, i)[1].val.view
                       ELSE first_req[i]]
    /\ sent' = IF sent.on /\ CallsOf(r.s.calls, SinkFns) # <<>>
               THEN [sent EXCEPT !.fwd[r.idx] =
                                    @ \cup {<<f.ev.id, f.ev.recordType>>}]
               ELSE sent
    /\ UNCHANGED cfg

\* the RX thread between two frames
Idle ==
    [pc |-> "idle", kind |-> "none", addr |-> NoAddr, ev |-> NoEvent,
     rsp |-> NoRsp, name |-> NoName, idx |-> -EPERM,
     sinkrc |-> 0, liferc |-> 0, namerc |-> 0]

\* the scan module delivers frame f: ad_handler runs to its end
Rx(f, env) == Deliver(ad_handler(Pack, f, env), f) /\ UNCHANGED pend

Envs(D, a) ==
    [slot : SlotChoices(dir, a), sinkrc : D.sinkrcs, liferc : D.lifercs,
     namerc : D.namercs, rogue : D.rogues]

EventsOf(D) == [id : D.ids, recordType : D.types, raw : D.raws]
RspsOf(D) == [productId : D.pids]

\* a primary (1M PHY) advertisement: ad_filter only
RxAd(D) ==
    \E a \in D.addrs, p \in EventsOf(D) : \E env \in Envs(D, a) :
        Rx([kind |-> "1m", addr |-> a, ev |-> p, rsp |-> NoRsp,
            name |-> NoName], env)

\* a coded PHY advertisement: event, scan response and name in one frame
RxCoded(D) ==
    \E a \in D.addrs, p \in EventsOf(D), q \in RspsOf(D), n \in D.names :
      \E env \in Envs(D, a) :
        Rx([kind |-> "coded", addr |-> a, ev |-> p, rsp |-> q, name |-> n],
           env)

\* a scan response: rsp_handler, then name_handler
RxRsp(D) ==
    \E a \in D.addrs, q \in RspsOf(D), n \in D.names :
      \E env \in Envs(D, a) :
        Rx([kind |-> "rsp", addr |-> a, ev |-> NoEvent, rsp |-> q,
            name |-> n], env)

\* the directory drops record i, when i is one
gw_obj_delete(s, i) ==
    IF valid_index(i)
    THEN [s EXCEPT !.dir[i] = NoAddr, !.epname[i] = NoName]
    ELSE s

\* the state a removal leaves, and the record of the operation
DeliverRemoved(s, i) ==
    /\ Commit(s)
    /\ frame' = [kind |-> "removed", addr |-> NoAddr, id |-> 0,
                 recordType |-> SENSOR_EVENT_RESERVED, raw |-> 0,
                 productId |-> INVALID_PRODUCT_ID, name |-> NoName,
                 idx |-> i, accepted |-> FALSE, dup |-> FALSE,
                 ridx |-> -EPERM, repeat |-> FALSE, was_full |-> table_full,
                 pid_before |-> IF valid_index(i) THEN table[i].product_id
                                ELSE INVALID_PRODUCT_ID]
    /\ writer' = IF valid_index(i) THEN [writer EXCEPT ![i] = NoAddr]
                 ELSE writer
    /\ first_req' = IF valid_index(i) THEN [first_req EXCEPT ![i] = NoName]
                    ELSE first_req
    /\ sent' = IF valid_index(i) THEN [sent EXCEPT !.fwd[i] = {}] ELSE sent
    /\ UNCHANGED cfg

\* the directory deletes or expires record i (when there is one) and
\* notifies the agent: gw_obj_removed(i)
Removed(D) ==
    /\ \E i \in D.remidx :
          DeliverRemoved(gw_obj_removed(gw_obj_delete(Pack, i), i), i)
    /\ UNCHANGED pend

(***************************************************************************)
(* ad_handler in two steps, for the interleavings with gw_obj_removed:     *)
(* nothing orders the RX thread against the directory's notification, so   *)
(* a removal can fall between the return of get_index and the use of the   *)
(* index it returned.                                                      *)
(***************************************************************************)
\* the RX thread holds index g.idx for frame f, at position pc
Resolved(g, pc, f, env) ==
    /\ Commit(g.s)
    /\ pend' = [pc |-> pc, kind |-> f.kind, addr |-> f.addr, ev |-> f.ev,
                rsp |-> f.rsp, name |-> f.name, idx |-> g.idx,
                sinkrc |-> env.sinkrc, liferc |-> env.liferc,
                namerc |-> env.namerc]
    /\ UNCHANGED <<cfg, frame, writer, first_req, sent>>

PendFrame ==
    [kind |-> pend.kind, addr |-> pend.addr, ev |-> pend.ev,
     rsp |-> pend.rsp, name |-> pend.name]

PendEnv ==
    [slot |-> 0, sinkrc |-> pend.sinkrc, liferc |-> pend.liferc,
     namerc |-> pend.namerc, rogue |-> "none"]

\* the index the RX thread holds, with the state as it is now
PendIndex == [s |-> Pack, idx |-> pend.idx]

\* a 1M frame of an enabled type, up to the return of ad_filter's get_index
AdResolve(D) ==
    /\ pend.pc = "idle"
    /\ \E a \in D.addrs, p \in EventsOf(D) : \E env \in Envs(D, a) :
          /\ ~ad_discard(cfg, p)
          /\ Resolved(get_index(Pack, a, TRUE, env), "ad_filter",
                      [kind |-> "1m", addr |-> a, ev |-> p, rsp |-> NoRsp,
                       name |-> NoName], env)

\* the rest of ad_filter: duplicate test, markers, dispatch, lifetime
AdFilter ==
    /\ pend.pc = "ad_filter"
    /\ Deliver(ad_handler_1m(ad_filter_indexed(PendIndex, pend.ev, PendEnv)),
               PendFrame)
    /\ pend' = Idle

\* a scan response, up to the return of rsp_handler's get_index
RspResolve(D) ==
    /\ pend.pc = "idle"
    /\ \E a \in D.addrs, q \in RspsOf(D), n \in D.names :
        \E env \in Envs(D, a) :
          Resolved(get_index(Pack, a, FALSE, env), "rsp_handler",
                   [kind |-> "rsp", addr |-> a, ev |-> NoEvent, rsp |-> q,
                    name |-> n], env)

\* the rest of rsp_handler (the store of the product id), and name_handler
RspStore ==
    /\ pend.pc = "rsp_handler"
    /\ Deliver(ad_handler_name(Filtered(Pack, -EPERM, FALSE, FALSE),
                               rsp_handler_store(PendIndex, pend.rsp),
                               PendFrame, PendEnv),
               PendFrame)
    /\ pend' = Idle

\* lcz_lwm2m_ble_sensor_init on the zero-initialised static lbs
InitState ==
    /\ table = [i \in Slots |->
                  [last_record_type |-> 0, last_event_id |-> 0,
                   product_id |-> INVALID_PRODUCT_ID]]
    /\ table_full = FALSE
    /\ dir = [i \in Slots |-> NoAddr]
    /\ epname = [i \in Slots |-> NoName]
    /\ frame = [kind |-> "init", addr |-> NoAddr, id |-> 0,
                recordType |-> SENSOR_EVENT_RESERVED, raw |-> 0,
                productId |-> INVALID_PRODUCT_ID, name |-> NoName,
                idx |-> -EPERM, accepted |-> FALSE, dup |-> FALSE,
                ridx |-> -EPERM, repeat |-> FALSE, was_full |-> FALSE,
                pid_before |-> INVALID_PRODUCT_ID]
    /\ calls = <<>>
    /\ writer = [i \in Slots |-> NoAddr]
    /\ first_req = [i \in Slots |-> NoName]
    /\ pend = Idle

(***************************************************************************)
(* Spec: frames and removals processed one at a time, in a build with the  *)
(* temperature and battery categories enabled.  Devices send temperature   *)
(* events and events of a disabled category (current); there are more      *)
(* addresses than the table holds.                                         *)
(***************************************************************************)
Dom ==
    [addrs |-> 1 .. NumAddr, ids |-> Ids,
     types |-> {SENSOR_EVENT_TEMPERATURE, SENSOR_EVENT_CURRENT_1},
     raws |-> {3777},
     pids |-> {BT510_PRODUCT_ID},
     names |-> {NoName},
     sinkrcs |-> {0}, lifercs |-> {0}, namercs |-> {0}, rogues |-> {"none"},
     remidx |-> -1 .. MAX_INSTANCES]

\* nothing forwarded yet; `on` says whether forwarding is recorded
NoneSent(on) == [on |-> on, fwd |-> [i \in Slots |-> {}]]

Init ==
    InitState /\ cfg = {"temperature", "battery"} /\ sent = NoneSent(FALSE)

Next == RxAd(Dom) \/ RxCoded(Dom) \/ RxRsp(Dom) \/ Removed(Dom)

Spec == Init /\ [][Next]_vars

(***************************************************************************)
(* SpecName: the same machine for two devices that send sequence id 0,     *)
(* with enabled, disabled and unknown record types, frames that carry one  *)
(* of two names or none, and a directory whose set_endpoint_name may fail. *)
(***************************************************************************)
DomName ==
    [addrs |-> {1, 2}, ids |-> {0},
     types |-> {SENSOR_EVENT_TEMPERATURE, SENSOR_EVENT_MAGNET,
                SENSOR_EVENT_CURRENT_1},
     raws |-> {3777},
     pids |-> {BT510_PRODUCT_ID},
     names |-> {NoName, "N1", "N2"},
     sinkrcs |-> {0}, lifercs |-> {0}, namercs |-> {0, -EIO},
     rogues |-> {"none"},
     remidx |-> -1 .. MAX_INSTANCES]

NextName ==
    RxAd(DomName) \/ RxCoded(DomName) \/ RxRsp(DomName) \/ Removed(DomName)

SpecName == Init /\ [][NextName]_vars

(***************************************************************************)
(* SpecBatt: one device that sends battery events with two payload words   *)
(* (3777, and 3777 + 2^16: the same low 16 bits), and scan responses of    *)
(* every product family; the sink and set_lifetime may fail.               *)
(***************************************************************************)
DomBatt ==
    [addrs |-> {1}, ids |-> Ids,
     types |-> {SENSOR_EVENT_BATTERY_GOOD, SENSOR_EVENT_BATTERY_BAD},
     raws |-> {3777, 69313},
     pids |-> {BT510_PRODUCT_ID, BT6XX_PRODUCT_ID, OTHER_PRODUCT_ID},
     names |-> {NoName},
     sinkrcs |-> {0, -EIO}, lifercs |-> {0, -EIO}, namercs |-> {0},
     rogues |-> {"none"},
     remidx |-> -1 .. MAX_INSTANCES]

NextBatt ==
    RxAd(DomBatt) \/ RxCoded(DomBatt) \/ RxRsp(DomBatt) \/ Removed(DomBatt)

SpecBatt == Init /\ [][NextBatt]_vars

(***************************************************************************)
(* SpecRace: two devices that send sequence id 1, 1M frames and scan       *)
(* responses handled in two steps each, and removal notifications that     *)
(* arrive at any point.                                                    *)
(***************************************************************************)
DomRace ==
    [addrs |-> {1, 2}, ids |-> {1},
     types |-> {SENSOR_EVENT_TEMPERATURE},
     raws |-> {3777},
     pids |-> {BT510_PRODUCT_ID, BT6XX_PRODUCT_ID},
     names |-> {NoName},
     sinkrcs |-> {0}, lifercs |-> {0}, namercs |-> {0}, rogues |-> {"none"},
     remidx |-> Slots]

NextRace ==
    \/ AdResolve(DomRace) \/ AdFilter
    \/ RspResolve(DomRace) \/ RspStore
    \/ Removed(DomRace)

SpecRace == Init /\ [][NextRace]_vars

(***************************************************************************)
(* SpecBlock: three devices and one the directory has blocked, all sending *)
(* sequence id 0.                                                          *)
(***************************************************************************)
DomBlock ==
    [addrs |-> Addrs, ids |-> {0},
     types |-> {SENSOR_EVENT_TEMPERATURE},
     raws |-> {3777},
     pids |-> {BT510_PRODUCT_ID},
     names |-> {NoName},
     sinkrcs |-> {0}, lifercs |-> {0}, namercs |-> {0}, rogues |-> {"none"},
     remidx |-> -1 .. MAX_INSTANCES]

NextBlock ==
    RxAd(DomBlock) \/ RxCoded(DomBlock) \/ RxRsp(DomBlock)
        \/ Removed(DomBlock)

SpecBlock == Init /\ [][NextBlock]_vars

(***************************************************************************)
(* SpecIdem: two devices sending temperature events in 1M frames, any      *)
(* sequence id in any order, with the events forwarded during a record's   *)
(* lifetime recorded.                                                      *)
(***************************************************************************)
DomIdem ==
    [addrs |-> {1, 2}, ids |-> Ids,
     types |-> {SENSOR_EVENT_TEMPERATURE},
     raws |-> {3777},
     pids |-> {BT510_PRODUCT_ID},
     names |-> {NoName},
     sinkrcs |-> {0}, lifercs |-> {0}, namercs |-> {0}, rogues |-> {"none"},
     remidx |-> Slots]

InitIdem ==
    InitState /\ cfg = {"temperature", "battery"} /\ sent = NoneSent(TRUE)

NextIdem == RxAd(DomIdem) \/ Removed(DomIdem)

SpecIdem == InitIdem /\ [][NextIdem]_vars

(***************************************************************************)
(* SpecFail: two devices sending temperature events in 1M frames, and      *)
(* scan responses, with a sink and a set_lifetime that may fail.           *)
(***************************************************************************)
DomFail ==
    [addrs |-> {1, 2}, ids |-> Ids,
     types |-> {SENSOR_EVENT_TEMPERATURE},
     raws |-> {3777},
     pids |-> {BT510_PRODUCT_ID},
     names |-> {NoName},
     sinkrcs |-> {0, -EIO}, lifercs |-> {0, -EIO}, namercs |-> {0},
     rogues |-> {"none"},
     remidx |-> Slots]

NextFail == RxAd(DomFail) \/ RxRsp(DomFail) \/ Removed(DomFail)

SpecFail == Init /\ [][NextFail]_vars

(***************************************************************************)
(* SpecRogue: builds without and with debug logging, and a directory whose *)
(* lookup or create may answer an index beyond the table.  Three devices,  *)
(* sequence id 0.                                                          *)
(***************************************************************************)
DomRogue ==
    [addrs |-> {1, 2, 3}, ids |-> {0},
     types |-> {SENSOR_EVENT_TEMPERATURE},
     raws |-> {3777},
     pids |-> {BT510_PRODUCT_ID},
     names |-> {NoName, "N1"},
     sinkrcs |-> {0}, lifercs |-> {0}, namercs |-> {0},
     rogues |-> {"none", "lookup", "create"},
     remidx |-> -1 .. MAX_INSTANCES]

InitRogue ==
    /\ InitState
    /\ cfg \in {{"temperature", "battery"},
                {"temperature", "battery", "log_dbg"}}
    /\ sent = NoneSent(FALSE)

NextRogue ==
    RxAd(DomRogue) \/ RxCoded(DomRogue) \/ RxRsp(DomRogue)
        \/ Removed(DomRogue)

SpecRogue == InitRogue /\ [][NextRogue]_vars

(***************************************************************************)
(* SpecGate: every build (every set of enabled categories), one device     *)
(* that sends, in 1M frames, every record type the source names and two it *)
(* does not handle.                                                        *)
(***************************************************************************)
DomGate ==
    [addrs |-> {1}, ids |-> {0},
     types |-> {SENSOR_EVENT_RESERVED, SENSOR_EVENT_TEMPERATURE,
                SENSOR_EVENT_MAGNET, SENSOR_EVENT_BATTERY_GOOD,
                SENSOR_EVENT_BATTERY_BAD} \cup
               (SENSOR_EVENT_TEMPERATURE_1 .. SENSOR_EVENT_PRESSURE_2),
     raws |-> {3777},
     pids |-> {BT510_PRODUCT_ID},
     names |-> {NoName},
     sinkrcs |-> {0}, lifercs |-> {0}, namercs |-> {0}, rogues |-> {"none"},
     remidx |-> Slots]

InitGate ==
    InitState /\ cfg \in SUBSET Categories /\ sent = NoneSent(FALSE)

NextGate == RxAd(DomGate)

SpecGate == InitGate /\ [][NextGate]_vars

(***************************************************************************)
(* Properties.                                                             *)
(***************************************************************************)
\* the record types of each measurement category
TypesOf(c) ==
    CASE c = "temperature" ->
            {SENSOR_EVENT_TEMPERATURE} \cup
            (SENSOR_EVENT_TEMPERATURE_1 .. SENSOR_EVENT_TEMPERATURE_4)
      [] c = "battery" -> {SENSOR_EVENT_BATTERY_GOOD, SENSOR_EVENT_BATTERY_BAD}
      [] c = "current" -> SENSOR_EVENT_CURRENT_1 .. SENSOR_EVENT_CURRENT_4
      [] c = "pressure" -> {SENSOR_EVENT_PRESSURE_1, SENSOR_EVENT_PRESSURE_2}
      [] c = "fill_level" -> {SENSOR_EVENT_ULTRASONIC_1}
      [] OTHER -> {}

\* the record type belongs to a category of this build
EnabledType(t) == \E c \in cfg : t \in TypesOf(c)

IsEventFrame(f) == f.kind \in {"1m", "coded"}

NumCalls(cs, fns) == Len(CallsOf(cs, fns))

HasRecord(d, a) == \E i \in Slots : d[i] = a

\* C1: an event frame that repeats the (id, type) just accepted from the same
\* address, with nothing in between, is dropped as a duplicate when the id is
\* not 0 (markers untouched, no sink call, no set_lifetime call) and is
\* accepted again, dispatched and its lifetime extended when the id is 0.
C1_ImmediateRepeat ==
    [][(IsEventFrame(frame') /\ frame'.repeat) =>
         IF frame'.id # 0
         THEN /\ ~frame'.accepted
              /\ frame'.dup
              /\ frame'.idx = frame.idx
              /\ \A i \in Slots : Markers(table'[i]) = Markers(table[i])
              /\ NumCalls(calls', SinkFns \cup {"set_lifetime"}) = 0
         ELSE /\ frame'.accepted
              /\ frame'.idx = frame.idx
              /\ NumCalls(calls', SinkFns) = 1
              /\ NumCalls(calls', {"set_lifetime"}) = 1]_vars

\* a repeat with a nonzero id has just been dropped
C1_Witness ==
    /\ IsEventFrame(frame) /\ frame.repeat /\ frame.id # 0
    /\ frame.dup /\ ~frame.accepted

C3_DiscardedTouchesNothing ==
    [][(IsEventFrame(frame') /\ ~EnabledType(frame'.recordType)) =>
         /\ dir' = dir
         /\ table_full' = table_full
         /\ \A i \in Slots : Markers(table'[i]) = Markers(table[i])
         /\ NumCalls(calls', SinkFns \cup {"create", "set_lifetime",
                                           "unhandled"}) = 0
         /\ ~frame'.accepted /\ ~frame'.dup /\ ~valid_index(frame'.idx)
         /\ frame'.kind = "1m" =>
               calls' = <<>> /\ table' = table /\ epname' = epname
         /\ frame'.kind = "coded" => NumCalls(calls', {"lookup"}) = 1]_vars

\* an event of the disabled current category came from an address without a
\* record while an index was free and the flag clear: nothing was asked
C3_Witness ==
    /\ frame.kind = "1m"
    /\ frame.recordType = SENSOR_EVENT_CURRENT_1
    /\ ~HasRecord(dir, frame.addr)
    /\ FreeSlots(dir) # {}
    /\ ~table_full
    /\ calls = <<>>

\* C4: with every index taken and the flag clear, an enabled event from an
\* address without a record has its create refused (no capacity) and sets
\* table_full; while table_full is set no create request is issued and the
\* flag stays set until a removal notification; an enabled event from an
\* address that has a record is still resolved to its index and processed.
C4_CapacityLatch ==
    [][/\ (/\ IsEventFrame(frame') /\ EnabledType(frame'.recordType)
           /\ ~HasRecord(dir, frame'.addr)
           /\ FreeSlots(dir) = {} /\ ~table_full) =>
             /\ table_full'
             /\ NumCalls(calls', {"create"}) = 1
             /\ \A k \in 1 .. Len(calls') :
                   calls'[k].fn = "create" => calls'[k].rc = -ENOMEM
             /\ dir' = dir
             /\ ~valid_index(frame'.idx) /\ ~frame'.accepted
       /\ (table_full /\ frame'.kind # "removed") =>
             table_full' /\ NumCalls(calls', {"create"}) = 0
       /\ (table_full /\ ~table_full') =>
             frame'.kind = "removed" /\ valid_index(frame'.idx)
       /\ (/\ table_full /\ IsEventFrame(frame')
           /\ EnabledType(frame'.recordType)
           /\ HasRecord(dir, frame'.addr)) =>
             /\ valid_index(frame'.idx)
             /\ dir[frame'.idx] = frame'.addr
             /\ frame'.accepted \/ frame'.dup]_vars

\* the flag is set and an enabled event from an address without a record
\* was looked up and dropped without a create request
C4_Witness ==
    /\ table_full
    /\ IsEventFrame(frame) /\ EnabledType(frame.recordType)
    /\ ~HasRecord(dir, frame.addr)
    /\ NumCalls(calls, {"lookup"}) >= 1
    /\ NumCalls(calls, {"create"}) = 0

\* C5: frames and removals taken one at a time: every slot whose index has
\* no live record holds INVALID_PRODUCT_ID, so a record created at a reused
\* index starts from the sentinel, never from the product id of the device
\* that held the index before.
C5_FreeSlotInvalid ==
    /\ \A i \in Slots :
          dir[i] = NoAddr => table[i].product_id = INVALID_PRODUCT_ID
    /\ (\E k \in 1 .. Len(calls) :
           calls[k].fn = "create" /\ valid_index(calls[k].rc)) =>
          frame.pid_before = INVALID_PRODUCT_ID

\* the record at an index whose slot held BT510 has just been removed
C5_Witness ==
    /\ frame.kind = "removed" /\ valid_index(frame.idx)
    /\ frame.pid_before = BT510_PRODUCT_ID
    /\ table[frame.idx].product_id = INVALID_PRODUCT_ID
    /\ dir[frame.idx] = NoAddr

\* C6: a frame that resolved index i does not write table[i] once record i
\* has been removed: when the RX thread comes back to the index it holds and
\* the directory no longer has the frame's address under it, the slot's
\* product id and markers stay as the removal left them.
C6_SlotExclusive ==
    [][(/\ pend.pc # "idle" /\ pend'.pc = "idle"
        /\ valid_index(pend.idx)
        /\ dir[pend.idx] # pend.addr) =>
            table'[pend.idx] = table[pend.idx]]_vars

\* C7: in a coded frame the event and the scan response are both handled,
\* and only the event's resolution can create a record: at most one create
\* request, issued right after the event's lookup and only for an enabled
\* type; the scan response's resolution is a lookup alone and returns the
\* record's index, under which the product id is stored and the name
\* handled.
C7_CodedOneCreate ==
    frame.kind = "coded" =>
      /\ NumCalls(calls, {"create"}) <= 1
      /\ NumCalls(calls, {"create"}) = 1 =>
            /\ EnabledType(frame.recordType)
            /\ calls[1].fn = "lookup" /\ calls[2].fn = "create"
      /\ NumCalls(calls, {"lookup"}) =
            IF EnabledType(frame.recordType) THEN 2 ELSE 1
      /\ (EnabledType(frame.recordType) /\ valid_index(frame.idx)) =>
            frame.accepted \/ frame.dup
      /\ valid_index(frame.ridx) <=> HasRecord(dir, frame.addr)
      /\ valid_index(frame.ridx) =>
            /\ dir[frame.ridx] = frame.addr
            /\ table[frame.ridx].product_id = frame.productId
            /\ frame.name # NoName =>
                  NumCalls(calls, {"inst_created"}) = 1
      /\ valid_index(frame.idx) => frame.ridx = frame.idx

\* one coded frame created the record, stored its product id and named it
C7_Witness ==
    /\ frame.kind = "coded" /\ frame.accepted
    /\ NumCalls(calls, {"create"}) = 1
    /\ frame.ridx = frame.idx
    /\ table[frame.idx].product_id = frame.productId
    /\ frame.name # NoName /\ epname[frame.idx] = frame.name

\* C8: a record is created only by an enabled event from an address without
\* a record.  A scan response, or a coded frame whose event is discarded,
\* from an address without a record makes one lookup and nothing else: no
\* create request, no valid index, no product id stored, no name set.
C8_OnlyEventsCreate ==
    [][/\ (/\ \/ frame'.kind = "rsp"
              \/ frame'.kind = "coded" /\ ~EnabledType(frame'.recordType)
           /\ ~HasRecord(dir, frame'.addr)) =>
             /\ Len(calls') = 1 /\ calls'[1].fn = "lookup"
             /\ ~valid_index(frame'.ridx) /\ ~valid_index(frame'.idx)
             /\ dir' = dir /\ table' = table /\ epname' = epname
             /\ table_full' = table_full
       /\ (\/ NumCalls(calls', {"create"}) > 0
           \/ \E i \in Slots : dir'[i] # dir[i] /\ dir'[i] # NoAddr) =>
             /\ IsEventFrame(frame') /\ EnabledType(frame'.recordType)
             /\ ~HasRecord(dir, frame'.addr)]_vars

\* a scan response with a name came from an address without a record while
\* an index was free and the flag clear: it was looked up and dropped
C8_Witness ==
    /\ frame.kind = "rsp" /\ frame.name # NoName
    /\ ~valid_index(frame.ridx)
    /\ ~HasRecord(dir, frame.addr)
    /\ FreeSlots(dir) # {} /\ ~table_full
    /\ Len(calls) = 1

\* C9 as claimed: once name_handler has issued a request for index i, a later
\* call for i with another name issues no request, and the name persisted is
\* the first one.
C9_SecondCallSilent ==
    [][\A i \in Slots :
         (/\ first_req[i] # NoName
          /\ frame'.kind \in {"coded", "rsp"} /\ frame'.ridx = i
          /\ frame'.name \notin {NoName, first_req[i]}) =>
            /\ NameReqs(calls', i) = <<>>
            /\ epname'[i] = first_req[i]]_vars

\* C9, amended: once a request for index i has succeeded, no later call during
\* that record's lifetime issues a request and the name persisted stays the
\* one of that first successful request; a request is issued only while the
\* record has no name, and persists its own payload when it succeeds.
C9_NameSetOnce ==
    [][\A i \in Slots :
         /\ (epname[i] # NoName /\ ~(frame'.kind = "removed" /\ frame'.idx = i))
               => epname'[i] = epname[i] /\ NameReqs(calls', i) = <<>>
         /\ NameReqs(calls', i) # <<>> =>
               /\ Len(NameReqs(calls', i)) = 1
               /\ epname[i] = NoName
               /\ NameReqs(calls', i)[1].val.view = frame'.name
               /\ epname'[i] = IF NameReqs(calls', i)[1].rc = 0
                               THEN frame'.name ELSE NoName]_vars

\* a record named N1 was sent a frame carrying N2: is_instance_created
\* answered true and no request was issued
C9_Witness ==
    /\ frame.kind \in {"coded", "rsp"} /\ valid_index(frame.ridx)
    /\ frame.name = "N2" /\ epname[frame.ridx] = "N1"
    /\ NumCalls(calls, {"inst_created"}) = 1
    /\ NameReqs(calls, frame.ridx) = <<>>

IsBattery(t) == t \in {SENSOR_EVENT_BATTERY_GOOD, SENSOR_EVENT_BATTERY_BAD}

\* C10: an accepted battery event makes exactly one sink call, battery_set
\* for the event's index: with the BT510 product id the voltage is the low 16
\* bits of the payload over 1000 and the percentage the BT510 curve of it;
\* with a product id of neither family (the sentinel too) voltage and
\* percentage are 0; whatever the sink answers the markers are the event's
\* and set_lifetime is called.
C10_BatteryConversion ==
    (IsEventFrame(frame) /\ frame.accepted /\ IsBattery(frame.recordType)) =>
      /\ NumCalls(calls, SinkFns) = 1
      /\ NumCalls(calls, {"battery_set"}) = 1
      /\ \A k \in 1 .. Len(calls) :
            calls[k].fn = "battery_set" =>
              /\ calls[k].idx = frame.idx /\ calls[k].off = 0
              /\ frame.pid_before = BT510_PRODUCT_ID =>
                    /\ calls[k].val.num = frame.raw % 65536
                    /\ calls[k].val.den = 1000
                    /\ calls[k].pct = [curve |-> "bt510",
                                       num |-> frame.raw % 65536,
                                       den |-> 1000]
              /\ frame.pid_before \notin {BT510_PRODUCT_ID, BT6XX_PRODUCT_ID} =>
                    /\ calls[k].val.num = 0
                    /\ calls[k].pct.curve = "zero" /\ calls[k].pct.num = 0
      /\ Markers(table[frame.idx]) = <<frame.id, frame.recordType>>
      /\ NumCalls(calls, {"set_lifetime"}) = 1
      /\ NumCalls(calls, {"unhandled"}) = 0

\* a battery event with payload 3777 was accepted for a BT510: 3777 / 1000
C10_Witness ==
    /\ IsEventFrame(frame) /\ frame.accepted
    /\ frame.recordType = SENSOR_EVENT_BATTERY_GOOD
    /\ frame.pid_before = BT510_PRODUCT_ID /\ frame.raw = 3777
    /\ \E k \in 1 .. Len(calls) :
          /\ calls[k].fn = "battery_set"
          /\ calls[k].val.num = 3777 /\ calls[k].val.den = 1000

\* the create requests among the calls cs that were answered rc
CreatesAnswered(cs, rc) ==
    SelectSeq(cs, LAMBDA c : c.fn = "create" /\ c.rc = rc)

\* C11: get_index sets table_full exactly when a create request is answered
\* -ENOMEM.  A create answered -EPERM (blocked device) leaves the flag as it
\* was, gives no valid index and drops the frame with table and directory
\* untouched; while the flag is clear every enabled event from an address
\* without a record issues a create request.
C11_FlagOnlyOnNoCapacity ==
    [][frame'.kind \in {"1m", "coded", "rsp"} =>
         /\ (table_full' # table_full) <=>
               (~table_full /\ CreatesAnswered(calls', -ENOMEM) # <<>>)
         /\ CreatesAnswered(calls', -ENOMEM) # <<>> => table_full'
         /\ CreatesAnswered(calls', -EPERM) # <<>> =>
               /\ frame'.addr = BlockedAddr
               /\ table_full' = table_full
               /\ ~valid_index(frame'.idx) /\ ~valid_index(frame'.ridx)
               /\ table' = table /\ dir' = dir /\ epname' = epname
               /\ NumCalls(calls', SinkFns \cup {"markers", "set_lifetime"}) = 0
         /\ (/\ IsEventFrame(frame') /\ EnabledType(frame'.recordType)
             /\ ~HasRecord(dir, frame'.addr) /\ ~table_full) =>
               NumCalls(calls', {"create"}) = 1]_vars

\* a create request of the blocked device was answered -EPERM while an index
\* was free and the flag clear
C11_Witness ==
    /\ IsEventFrame(frame) /\ frame.addr = BlockedAddr
    /\ CreatesAnswered(calls, -EPERM) # <<>>
    /\ ~table_full /\ FreeSlots(dir) # {}

\* C12 as claimed: every removal notification clears table_full.
C12_EveryRemovalClears ==
    [][frame'.kind = "removed" => ~table_full']_vars

\* C12, amended: a removal notification that names an index of the table
\* clears table_full, whichever index it names, and the next enabled event
\* from an address without a record issues a create request; a notification
\* with an index outside the table changes nothing, the flag included.
C12_ValidRemovalClears ==
    [][/\ (frame'.kind = "removed" /\ valid_index(frame'.idx)) =>
             ~table_full'
       /\ (frame'.kind = "removed" /\ ~valid_index(frame'.idx)) =>
             table_full' = table_full /\ table' = table
       /\ (/\ frame.kind = "removed" /\ valid_index(frame.idx)
           /\ IsEventFrame(frame') /\ EnabledType(frame'.recordType)
           /\ ~HasRecord(dir, frame'.addr)) =>
             NumCalls(calls', {"create"}) = 1]_vars

\* the flag was set when a removal named an index of the table, and is clear
C12_Witness ==
    /\ frame.kind = "removed" /\ valid_index(frame.idx)
    /\ frame.was_full /\ ~table_full

\* the steps of an accepted event among the calls cs, in their order
AcceptSteps(cs) == CallsOf(cs, SinkFns \cup {"markers", "set_lifetime"})

\* C13: set_lifetime is called exactly in the frames whose event is accepted
\* as a non-duplicate of an enabled type, once, for the event's index and
\* after the store of the markers and the sink call, in that order.  A
\* duplicate, a discarded event, a scan response, a name and a removal never
\* call it, nor does the repeat of the last nonzero (id, type).
C13_LifetimeOnAccept ==
    /\ NumCalls(calls, {"set_lifetime"}) = IF frame.accepted THEN 1 ELSE 0
    /\ frame.accepted <=>
          /\ IsEventFrame(frame) /\ EnabledType(frame.recordType)
          /\ valid_index(frame.idx) /\ ~frame.dup
    /\ frame.accepted =>
          /\ Len(AcceptSteps(calls)) = 3
          /\ AcceptSteps(calls)[1].fn = "markers"
          /\ AcceptSteps(calls)[2].fn \in SinkFns
          /\ AcceptSteps(calls)[3].fn = "set_lifetime"
          /\ \A k \in 1 .. 3 : AcceptSteps(calls)[k].idx = frame.idx
    /\ ~frame.accepted => AcceptSteps(calls) = <<>>
    /\ (frame.repeat /\ frame.id # 0 /\ EnabledType(frame.recordType)) =>
          frame.dup

\* a device repeated its last nonzero (id, type): no step, no set_lifetime
C13_Witness ==
    /\ frame.kind = "coded" /\ frame.repeat /\ frame.id # 0 /\ frame.dup
    /\ valid_index(frame.idx)
    /\ NumCalls(calls, {"set_lifetime"}) = 0
    /\ NumCalls(calls, {"lookup"}) = 2

\* C14: the first enabled event from an address whose record the frame has
\* just created is accepted, never dropped as a duplicate, whatever the
\* previous holder of the index last reported.
C14_NewRecordNotDuplicate ==
    (/\ IsEventFrame(frame) /\ EnabledType(frame.recordType)
     /\ \E k \in 1 .. Len(calls) :
           calls[k].fn = "create" /\ valid_index(calls[k].rc)) =>
        frame.accepted /\ ~frame.dup

\* C15 as claimed: an event with a nonzero id that has been forwarded during
\* the record's lifetime is not forwarded again.
C15_ForwardedOnce ==
    [][(/\ IsEventFrame(frame') /\ frame'.id # 0
        /\ valid_index(frame'.idx) /\ dir[frame'.idx] = frame'.addr
        /\ <<frame'.id, frame'.recordType>> \in sent.fwd[frame'.idx]) =>
            NumCalls(calls', SinkFns) = 0]_vars

\* C15, amended: a frame forwards its event at most once, and an event with
\* a nonzero id forwarded earlier in the record's lifetime is not forwarded
\* while it is the last event accepted from the device; it is forwarded
\* again only after another event of the device has been accepted.
C15_ForwardedOncePerRun ==
    [][(/\ IsEventFrame(frame') /\ frame'.id # 0
        /\ valid_index(frame'.idx) /\ dir[frame'.idx] = frame'.addr
        /\ <<frame'.id, frame'.recordType>> \in sent.fwd[frame'.idx]) =>
            /\ NumCalls(calls', SinkFns) <= 1
            /\ NumCalls(calls', SinkFns) = 1 <=>
                  Markers(table[frame'.idx]) #
                      <<frame'.id, frame'.recordType>>]_vars

\* an event with a nonzero id forwarded before came again as the device's
\* last accepted event and was dropped
C15_Witness ==
    /\ sent.on
    /\ IsEventFrame(frame) /\ frame.id # 0 /\ frame.dup
    /\ valid_index(frame.idx)
    /\ <<frame.id, frame.recordType>> \in sent.fwd[frame.idx]
    /\ NumCalls(calls, SinkFns) = 0

\* the frame an operation's record fr was made from
FrameOf(fr) ==
    [kind |-> fr.kind, addr |-> fr.addr,
     ev |-> [id |-> fr.id, recordType |-> fr.recordType, raw |-> fr.raw],
     rsp |-> [productId |-> fr.productId], name |-> fr.name]

\* the same directory choice as in fr, every external call succeeding
NoFailEnv(fr) ==
    [slot |-> IF valid_index(fr.idx) THEN fr.idx ELSE 0,
     sinkrc |-> 0, liferc |-> 0, namerc |-> 0, rogue |-> "none"]

\* the steps of the calls cs without their return codes
StepsOf(cs) == [k \in 1 .. Len(cs) |-> <<cs[k].fn, cs[k].idx, cs[k].val>>]

\* the step taken left what r0 leaves
SameOutcome(r0) ==
    /\ table' = r0.s.table /\ table_full' = r0.s.table_full
    /\ dir' = r0.s.dir /\ epname' = r0.s.epname
    /\ StepsOf(calls') = StepsOf(r0.s.calls)
    /\ frame'.accepted = r0.accepted /\ frame'.dup = r0.dup

\* a sink call or set_lifetime among cs failed
Failed(cs) ==
    \E k \in 1 .. Len(cs) :
        cs[k].fn \in SinkFns \cup {"set_lifetime"} /\ cs[k].rc # 0

\* C16: a failing sink or set_lifetime call changes nothing but its return
\* code: the frame leaves the state and makes the steps it would with every
\* call succeeding; the event is accepted with one sink call and one
\* set_lifetime call (no second try), the markers are the event's, table_full
\* is as before and a 1M frame leaves the product id; a repeat of the same
\* nonzero (id, type) after the failure is dropped as a duplicate.
C16_FailuresIgnored ==
    [][IsEventFrame(frame') =>
         /\ \A r0 \in {ad_handler(Pack, FrameOf(frame'), NoFailEnv(frame'))} :
               SameOutcome(r0)
         /\ Failed(calls') =>
               /\ frame'.accepted
               /\ NumCalls(calls', SinkFns) = 1
               /\ NumCalls(calls', {"set_lifetime"}) = 1
               /\ Markers(table'[frame'.idx]) =
                     <<frame'.id, frame'.recordType>>
               /\ table_full' = table_full
               /\ frame'.kind = "1m" =>
                     table'[frame'.idx].product_id =
                         table[frame'.idx].product_id
         /\ (/\ IsEventFrame(frame) /\ Failed(calls)
             /\ frame'.repeat /\ frame'.id # 0) =>
               /\ frame'.dup
               /\ NumCalls(calls', SinkFns \cup {"set_lifetime"}) = 0]_vars

\* the sink call and set_lifetime of an accepted event both failed
C16_Witness ==
    /\ IsEventFrame(frame) /\ frame.accepted /\ frame.id # 0
    /\ \E k \in 1 .. Len(calls) :
          calls[k].fn \in SinkFns /\ calls[k].rc = -EIO
    /\ \E k \in 1 .. Len(calls) :
          calls[k].fn = "set_lifetime" /\ calls[k].rc = -EIO
    /\ Markers(table[frame.idx]) = <<frame.id, frame.recordType>>

\* the calls that take an index of the table
IndexedFns ==
    SinkFns \cup {"markers", "set_lifetime", "inst_created",
                  "set_endpoint_name"}

\* the directory's calls that take an index for the debug log of get_index
DiagnosticFns == {"get_instance", "get_endpoint_name"}

\* C17: every index a frame or a removal uses on the table, or passes to a
\* sink, to set_lifetime or to a name call of the directory, is an index of
\* the table, whatever the directory's lookup or create answered.
C17_IndexInRange ==
    /\ \A k \in 1 .. Len(calls) :
          calls[k].fn \in IndexedFns \cup DiagnosticFns =>
              valid_index(calls[k].idx)
    /\ frame.kind # "removed" =>
          frame.idx < MAX_INSTANCES /\ frame.ridx < MAX_INSTANCES

\* C17 without the debug log: the table accesses, the sink calls,
\* set_lifetime, is_instance_created and set_endpoint_name take an index of
\* the table; a 1M frame or scan response whose resolution ended on an
\* answer beyond the table is dropped with the table, the names and the
\* directory as they were.
C17_UsedIndexInRange ==
    [][/\ \A k \in 1 .. Len(calls') :
             calls'[k].fn \in IndexedFns => valid_index(calls'[k].idx)
       /\ frame'.kind # "removed" =>
             frame'.idx < MAX_INSTANCES /\ frame'.ridx < MAX_INSTANCES
       /\ (/\ frame'.kind \in {"1m", "rsp"}
           /\ \E k \in 1 .. Len(calls') :
              /\ calls'[k].fn \in {"lookup", "create"}
              /\ calls'[k].rc >= MAX_INSTANCES
              /\ \A j \in (k + 1) .. Len(calls') :
                    calls'[j].fn \notin {"lookup", "create"}) =>
             /\ table' = table /\ epname' = epname /\ dir' = dir
             /\ NumCalls(calls', IndexedFns) = 0
       /\ (frame'.kind = "removed" /\ ~valid_index(frame'.idx)) =>
             table' = table /\ table_full' = table_full]_vars

\* a lookup answered beyond the table and the frame was dropped
C17_Dropped ==
    /\ frame.kind = "rsp" /\ frame.name # NoName
    /\ Len(calls) = 1 /\ calls[1].rc = RogueIndex
    /\ HasRecord(dir, frame.addr)
    /\ frame.ridx = -EPERM

\* the table at capacity refused a create in a build with debug logging
C17_NoCapacityLogged ==
    /\ "log_dbg" \in cfg
    /\ \E k \in 1 .. Len(calls) :
          calls[k].fn = "get_endpoint_name" /\ calls[k].idx = -ENOMEM

\* the sink of a category
SinkOf(c) ==
    CASE c = "temperature" -> "temperature_set"
      [] c = "battery" -> "battery_set"
      [] c = "current" -> "current_set"
      [] c = "pressure" -> "pressure_set"
      [] c = "fill_level" -> "fill_level_set"

\* the sub-channel of a record type: its distance from the first type of a
\* multi-channel group, 0 for a single type
SubChannel(t) ==
    IF t \in SENSOR_EVENT_TEMPERATURE_1 .. SENSOR_EVENT_TEMPERATURE_4
    THEN t - SENSOR_EVENT_TEMPERATURE_1
    ELSE IF t \in SENSOR_EVENT_CURRENT_1 .. SENSOR_EVENT_CURRENT_4
    THEN t - SENSOR_EVENT_CURRENT_1
    ELSE IF t \in {SENSOR_EVENT_PRESSURE_1, SENSOR_EVENT_PRESSURE_2}
    THEN t - SENSOR_EVENT_PRESSURE_1
    ELSE 0

\* C18: in every build, an event is let through by ad_discard exactly when
\* its type belongs to an enabled category, and every event let through (and
\* not dropped later) makes exactly one sink call, to the sink of its own
\* category, for the event's index and with the sub-channel of its type; the
\* 'unhandled' branch of ad_process is never taken.
C18_GateMatchesDispatcher ==
    IsEventFrame(frame) =>
      /\ NumCalls(calls, {"unhandled"}) = 0
      /\ NumCalls(calls, {"lookup"}) > 0 <=> EnabledType(frame.recordType)
      /\ frame.accepted =>
            /\ NumCalls(calls, SinkFns) = 1
            /\ \E c \in cfg :
                  /\ frame.recordType \in TypesOf(c)
                  /\ CallsOf(calls, SinkFns)[1].fn = SinkOf(c)
            /\ CallsOf(calls, SinkFns)[1].off = SubChannel(frame.recordType)
            /\ CallsOf(calls, SinkFns)[1].idx = frame.idx
      /\ ~frame.accepted => NumCalls(calls, SinkFns) = 0

\* in a build with the pressure category only, the second pressure channel
\* went to the pressure sink with sub-channel 1
C18_Witness ==
    /\ cfg = {"pressure"}
    /\ IsEventFrame(frame) /\ frame.accepted
    /\ frame.recordType = SENSOR_EVENT_PRESSURE_2
    /\ CallsOf(calls, SinkFns)[1].fn = "pressure_set"
    /\ CallsOf(calls, SinkFns)[1].off = 1

\* the place of the first call of one of fns among cs, 0 when there is none
FirstCall(cs, fns) ==
    IF \E k \in 1 .. Len(cs) : cs[k].fn \in fns
    THEN CHOOSE k \in 1 .. Len(cs) :
             /\ cs[k].fn \in fns
             /\ \A j \in 1 .. (k - 1) : cs[j].fn \notin fns
    ELSE 0

\* the place of the last call of one of fns among cs, 0 when there is none
LastCall(cs, fns) ==
    IF \E k \in 1 .. Len(cs) : cs[k].fn \in fns
    THEN CHOOSE k \in 1 .. Len(cs) :
             /\ cs[k].fn \in fns
             /\ \A j \in (k + 1) .. Len(cs) : cs[j].fn \notin fns
    ELSE 0

\* C19: in a coded frame the event is dispatched before the scan response
\* is correlated: the battery sink is called before rsp_handler's lookup and
\* with the conversion of the product id the slot held before the frame,
\* not of the frame's own; so the battery event of the frame that created
\* the record is forwarded as 0 and 0, and the frame's product id is in the
\* slot only afterwards.
C19_EventBeforeResponse ==
    (frame.kind = "coded" /\ frame.accepted /\ IsBattery(frame.recordType)) =>
      /\ NumCalls(calls, {"battery_set"}) = 1
      /\ FirstCall(calls, {"battery_set"}) < LastCall(calls, {"lookup"})
      /\ \A b \in {calls[FirstCall(calls, {"battery_set"})]} :
            /\ frame.pid_before = BT510_PRODUCT_ID =>
                  /\ b.val.view = "u16" /\ b.val.num = frame.raw % 65536
                  /\ b.pct.curve = "bt510"
            /\ frame.pid_before = BT6XX_PRODUCT_ID =>
                  /\ b.val.view = "u32" /\ b.val.num = frame.raw
                  /\ b.pct.curve = "bt610"
            /\ frame.pid_before \notin {BT510_PRODUCT_ID, BT6XX_PRODUCT_ID} =>
                  b.val.num = 0 /\ b.pct.curve = "zero"
            /\ NumCalls(calls, {"create"}) = 1 =>
                  /\ frame.pid_before = INVALID_PRODUCT_ID
                  /\ b.val.num = 0 /\ b.pct.curve = "zero"
      /\ table[frame.idx].product_id = frame.productId

\* the coded frame that created the record carried a battery event and the
\* BT510 product id: 0 volts were forwarded, and the slot now says BT510
C19_Witness ==
    /\ frame.kind = "coded" /\ frame.accepted
    /\ frame.recordType = SENSOR_EVENT_BATTERY_GOOD
    /\ NumCalls(calls, {"create"}) = 1
    /\ frame.productId = BT510_PRODUCT_ID
    /\ calls[FirstCall(calls, {"battery_set"})].val.num = 0
    /\ table[frame.idx].product_id = BT510_PRODUCT_ID

\* the slots other than i are as they were before the step
OthersKept(i) == \A j \in Slots : j # i => table'[j] = table[j]

\* no slot's product id changes in the step
ProductIdsKept == \A j \in Slots : table'[j].product_id = table[j].product_id

\* no slot's duplicate markers change in the step
MarkersKept == \A j \in Slots : Markers(table'[j]) = Markers(table[j])

\* C20: each operation changes only its own part of the state.  A 1M frame
\* changes no product id and no slot but the one of the event's index, and
\* nothing of the table unless the event is accepted; it changes table_full
\* only by setting it, on a create answered -ENOMEM.  A scan response changes
\* no marker, no slot but the one it resolved, and not table_full.  A coded
\* frame changes markers only in the event's slot and a product id only in
\* the response's slot.  A removal notification for index i changes no
\* marker and no slot but i, leaves slot i with the invalid product id, and
\* a second notification for i leaves the state the first one left.
C20_FrameEffects ==
    [][/\ frame'.kind = "1m" =>
             /\ ProductIdsKept
             /\ OthersKept(frame'.idx)
             /\ ~frame'.accepted => table' = table
             /\ frame'.accepted =>
                   Markers(table'[frame'.idx]) =
                       <<frame'.id, frame'.recordType>>
             /\ table_full' # table_full =>
                   /\ table_full'
                   /\ NumCalls(calls', {"create"}) = 1
                   /\ CallsOf(calls', {"create"})[1].rc = -ENOMEM
       /\ frame'.kind = "rsp" =>
             /\ MarkersKept
             /\ OthersKept(frame'.ridx)
             /\ table_full' = table_full
             /\ valid_index(frame'.ridx) =>
                   table'[frame'.ridx].product_id = frame'.productId
       /\ frame'.kind = "coded" =>
             /\ \A j \in Slots :
                   /\ j # frame'.idx =>
                         Markers(table'[j]) = Markers(table[j])
                   /\ j # frame'.ridx =>
                         table'[j].product_id = table[j].product_id
       /\ frame'.kind = "removed" =>
             /\ MarkersKept
             /\ OthersKept(frame'.idx)
             /\ valid_index(frame'.idx) =>
                   /\ table'[frame'.idx].product_id = INVALID_PRODUCT_ID
                   /\ ~table_full'
             /\ \A t \in {gw_obj_removed(Pack, frame'.idx)} :
                   /\ t.table = table' /\ t.table_full = table_full'
                   /\ gw_obj_removed(t, frame'.idx) = t]_vars

\* a notification for a slot that held an accepted event and a product id,
\* while the flag was set: the flag and the product id went, the markers
\* stayed
C20_Witness ==
    /\ frame.kind = "removed" /\ valid_index(frame.idx)
    /\ frame.was_full /\ ~table_full
    /\ frame.pid_before = BT510_PRODUCT_ID
    /\ table[frame.idx].product_id = INVALID_PRODUCT_ID
    /\ table[frame.idx].last_event_id # 0
    /\ table[frame.idx].last_record_type = SENSOR_EVENT_TEMPERATURE

====
